---- MODULE Spec2Model ----
(***************************************************************************)
(* A model of files-zipper (src/code.py): the password policy, the        *)
(* unique-path resolver, the 7-Zip adapter, the zip wrapper, the self-test *)
(* and the batch loop of main(), over an explicit model of the directory.  *)
(*                                                                         *)
(* Text (paths, log lines, exception messages, file contents) is a         *)
(* sequence of atoms (strings); a path is the sequence of its dot-separated*)
(* components, so <<"a","txt","zip">> is a.txt.zip.  The secret is one     *)
(* atom, so "the line contains the secret" is "the atom occurs in it".     *)
(***************************************************************************)
EXTENDS Integers, Sequences, FiniteSets, TLC

\* ------------------------------------------------------------------ bounds
\* typed candidates have up to MinLen + MaxExtraLen characters
MaxExtraLen == 0
\* numbered variants name.1.zip .. name.<MaxProbe>.zip that may pre-exist
MaxProbe == 2

VARIABLES
    candidate,  \* the characters typed at the password prompt (buf2)
    verdict,    \* what validate_password_policy returned for candidate
    fs,         \* the directory: path -> entry (partial function)
    fs0,        \* history: fs when the operation or run started
    pc,         \* position of the running entry point
    loc,        \* locals of the running operation
    password,   \* the run's Secret
    engine,     \* the 7-Zip build: "sound" or "regressed"
    log,        \* lines appended to log.txt, oldest first
    all_files,  \* main(): the candidate list
    idx,        \* main(): index in all_files of the file being processed
    errors,     \* main(): errors counter
    successes,  \* main(): successes counter
    rc          \* exit code of the process, -1 while it runs

vars == <<candidate, verdict, fs, fs0, pc, loc, password, engine, log,
          all_files, idx, errors, successes, rc>>

Range(s) == {s[i] : i \in 1..Len(s)}

\* ------------------------------------------------------- text and paths
Digit == <<"0", "1", "2", "3", "4", "5", "6", "7", "8", "9">>

\* str(i) of a non-negative integer, as f"{i}" formats it
RECURSIVE Str(_)
Str(i) == IF i < 10 THEN Digit[i + 1] ELSE Str(i \div 10) \o Digit[(i % 10) + 1]

\* a path may start with one directory component
DirNames == {"../", "src/", "mid/", "out/", "out/dec/", "out/wrong/"}

\* a file name as one string: its components joined by dots
RECURSIVE DotJoin(_)
DotJoin(p) ==
    IF Len(p) = 0 THEN ""
    ELSE IF Len(p) = 1 THEN p[1] ELSE p[1] \o "." \o DotJoin(Tail(p))

\* a path as one string, as an f-string prints it
PathStr(p) ==
    IF Len(p) > 0 /\ p[1] \in DirNames THEN p[1] \o DotJoin(Tail(p)) ELSE DotJoin(p)

\* os.path.basename, as one string
basename(p) ==
    IF Len(p) > 0 /\ p[1] \in DirNames THEN DotJoin(Tail(p)) ELSE DotJoin(p)

\* os.path.join of a directory and a file name given as one string
os_path_join(dir, name) == <<dir, name>>

\* os.path.splitext: <<base, ext>>, ext the last dot component (or empty)
splitext(p) ==
    IF Len(p) >= 2 THEN <<SubSeq(p, 1, Len(p) - 1), <<p[Len(p)]>>>>
    ELSE <<p, <<>>>>

\* ----------------------------------------------------------- filesystem
File(c) == [k |-> "file", c |-> c, t |-> <<>>]
Dir == [k |-> "dir", c |-> <<>>, t |-> <<>>]
Link(t) == [k |-> "link", c |-> <<>>, t |-> t]

\* a directory entry is present at p (os.path.lexists)
Has(f, p) == p \in DOMAIN f
\* where an access through p lands: the link's target, else p itself
Target(f, p) == IF Has(f, p) /\ f[p].k = "link" THEN f[p].t ELSE p
os_path_islink(f, p) == Has(f, p) /\ f[p].k = "link"
\* os.path.exists follows links: False for a link whose target is missing
os_path_exists(f, p) == Has(f, p) /\ Has(f, Target(f, p))
os_path_isfile(f, p) == os_path_exists(f, p) /\ f[Target(f, p)].k = "file"
os_path_isdir(f, p) == os_path_exists(f, p) /\ f[Target(f, p)].k = "dir"
os_remove(f, p) == [q \in (DOMAIN f) \ {p} |-> f[q]]
WriteFile(f, p, c) == (p :> File(c)) @@ f
\* os.replace renames over the entry at dst itself (a link is not followed)
os_replace(f, src, dst) == (dst :> f[src]) @@ os_remove(f, src)

\* entries outside the processed directory, reached only through links
Victim == <<"../", "victim">>
Gone == <<"../", "gone">>
Outside == (Victim :> File(<<"precious">>))

EntryOf(kind) ==
    IF kind = "file" THEN File(<<"old">>)
    ELSE IF kind = "dir" THEN Dir
    ELSE IF kind = "link" THEN Link(Victim)
    ELSE Link(Gone)

\* the filesystem that holds EntryOf(a[p]) at every p with a[p] # "none"
MkFs(a) == [p \in {q \in DOMAIN a : a[q] # "none"} |-> EntryOf(a[p])] @@ Outside

\* ------------------------------------------------------ password policy
UpperChars == {"A", "B", "C", "D", "E", "F", "G", "H", "I", "J", "K", "L", "M",
               "N", "O", "P", "Q", "R", "S", "T", "U", "V", "W", "X", "Y", "Z"}
LowerChars == {"a", "b", "c", "d", "e", "f", "g", "h", "i", "j", "k", "l", "m",
               "n", "o", "p", "q", "r", "s", "t", "u", "v", "w", "x", "y", "z"}
DigitChars == Range(Digit)
\* the characters c with c.isupper(), c.isalpha(), c.isdigit()
isupper == UpperChars
isalpha == UpperChars \cup LowerChars
isdigit == DigitChars

MinLen == 8
MsgLength == "Password must be at least 8 characters."
MsgUpper == "Password must include at least 1 uppercase letter."
MsgLetters == "Password must include at least 4 letters (A-Z/a-z)."
MsgDigits == "Password must include at least 4 digits (0-9)."
MsgRepeat == "Character repeats more than twice."

\* sum(1 for c in pw if c in S), from position i on
RECURSIVE CountIn(_, _, _)
CountIn(S, pw, i) ==
    IF i > Len(pw) THEN 0
    ELSE (IF pw[i] \in S THEN 1 ELSE 0) + CountIn(S, pw, i + 1)

\* the counts loop: the first character whose count exceeds 2, as <<c>>,
\* or <<>> when the loop ends
RECURSIVE FirstRepeat(_, _)
FirstRepeat(pw, i) ==
    IF i > Len(pw) THEN <<>>
    ELSE IF Cardinality({j \in 1..i : pw[j] = pw[i]}) > 2 THEN <<pw[i]>>
    ELSE FirstRepeat(pw, i + 1)

\* the policy with the letters rule before the uppercase rule and no digit rule
validate_password_policy_mut(pw) ==
    IF Len(pw) < MinLen THEN [ok |-> FALSE, reason |-> <<MsgLength>>]
    ELSE IF CountIn(isalpha, pw, 1) < 4 THEN [ok |-> FALSE, reason |-> <<MsgLetters>>]
    ELSE IF CountIn(isupper, pw, 1) < 1 THEN [ok |-> FALSE, reason |-> <<MsgUpper>>]
    ELSE IF FirstRepeat(pw, 1) # <<>>
         THEN [ok |-> FALSE, reason |-> <<MsgRepeat>> \o FirstRepeat(pw, 1)]
    ELSE [ok |-> TRUE, reason |-> <<"OK">>]

validate_password_policy(pw) ==
    IF Len(pw) < MinLen THEN [ok |-> FALSE, reason |-> <<MsgLength>>]
    ELSE IF CountIn(isupper, pw, 1) < 1 THEN [ok |-> FALSE, reason |-> <<MsgUpper>>]
    ELSE IF CountIn(isalpha, pw, 1) < 4 THEN [ok |-> FALSE, reason |-> <<MsgLetters>>]
    ELSE IF CountIn(isdigit, pw, 1) < 4 THEN [ok |-> FALSE, reason |-> <<MsgDigits>>]
    ELSE IF FirstRepeat(pw, 1) # <<>>
         THEN [ok |-> FALSE, reason |-> <<MsgRepeat>> \o FirstRepeat(pw, 1)]
    ELSE [ok |-> TRUE, reason |-> <<"OK">>]

\* ------------------------------------------------- unique-path resolver
\* the loop of ensure_unique_path from i on: the first base.i.ext not existing
RECURSIVE ProbeFrom(_, _, _, _)
ProbeFrom(f, base, ext, i) ==
    LET cand == base \o <<Str(i)>> \o ext
    IN  IF ~os_path_exists(f, cand) THEN cand ELSE ProbeFrom(f, base, ext, i + 1)

\* the resolver probing from 2 on, without testing the desired path
ensure_unique_path_mut(f, desired_path) ==
    ProbeFrom(f, splitext(desired_path)[1], splitext(desired_path)[2], 2)

\* the resolver that hands back the desired path as it is
ensure_unique_path_same(f, desired_path) == desired_path

ensure_unique_path(f, desired_path) ==
    IF ~os_path_exists(f, desired_path) THEN desired_path
    ELSE ProbeFrom(f, splitext(desired_path)[1], splitext(desired_path)[2], 1)

\* ------------------------------------------------- values shared by Init
NoVerdict == [ok |-> FALSE, reason |-> <<>>]
NoLoc == [op |-> "none"]
Idle ==
    /\ candidate = <<>>
    /\ verdict = NoVerdict
    /\ password = "none"
    /\ engine = "sound"
    /\ log = <<>>
    /\ all_files = <<>>
    /\ idx = 0
    /\ errors = 0
    /\ successes = 0
    /\ rc = -1

\* =========================================== SpecValidate: the policy
Alphabet == {"A", "a", "1", "2"}
\* pasted beginnings: the candidates the specification names, and runs of
\* punctuation (neither letters nor digits) that typing then extends
Examples == {<<"A", "a", "B", "b", "1", "1", "2", "2">>,
             <<"A", "L", "L", "1", "2", "3", "4", "5">>,
             <<"s", "h", "o", "r", "t", "1">>,
             <<"!", "?", "!", "?", "#">>,
             <<"!", "?", "!", "?">>,
             <<"!", "!", "!">>}

InitValidate ==
    /\ Idle
    /\ fs = Outside /\ fs0 = Outside
    /\ pc = "prompt"
    /\ loc = NoLoc

TypeChar ==
    /\ pc = "prompt"
    /\ Len(candidate) < MinLen + MaxExtraLen
    /\ \E ch \in Alphabet : candidate' = Append(candidate, ch)
    /\ UNCHANGED <<verdict, fs, fs0, pc, loc, password, engine, log,
                   all_files, idx, errors, successes, rc>>

\* the input starts with one of the pasted beginnings
TypeExample ==
    /\ pc = "prompt"
    /\ candidate = <<>>
    /\ \E ex \in Examples : candidate' = ex
    /\ UNCHANGED <<verdict, fs, fs0, pc, loc, password, engine, log,
                   all_files, idx, errors, successes, rc>>

Validate ==
    /\ pc = "prompt"
    /\ verdict' = validate_password_policy(candidate)
    /\ pc' = "validated"
    /\ UNCHANGED <<candidate, fs, fs0, loc, password, engine, log,
                   all_files, idx, errors, successes, rc>>

NextValidate == TypeChar \/ TypeExample \/ Validate
SpecValidate == InitValidate /\ [][NextValidate]_vars

\* the policy, stated on the candidate
Occurrences(pw, c) == Cardinality({i \in 1..Len(pw) : pw[i] = c})
NumUpper(pw) == Cardinality({i \in 1..Len(pw) : pw[i] \in UpperChars})
NumLetters(pw) == Cardinality({i \in 1..Len(pw) : pw[i] \in UpperChars \cup LowerChars})
NumDigits(pw) == Cardinality({i \in 1..Len(pw) : pw[i] \in DigitChars})
NoTriple(pw) == \A c \in Range(pw) : Occurrences(pw, c) <= 2
FirstViolatedRule(pw) ==
    IF Len(pw) < 8 THEN MsgLength
    ELSE IF NumUpper(pw) < 1 THEN MsgUpper
    ELSE IF NumLetters(pw) < 4 THEN MsgLetters
    ELSE IF NumDigits(pw) < 4 THEN MsgDigits
    ELSE IF ~NoTriple(pw) THEN MsgRepeat
    ELSE "OK"

\* C3: a candidate is accepted exactly when it has >= 8 characters, >= 1
\* uppercase letter, >= 4 letters, >= 4 digits and no character more than
\* twice; a rejection names the first violated rule in the order length,
\* uppercase, letters, digits, repetition; AAAA1111 is rejected for
\* repetition and AaBb1122 is accepted.
C3_ValidatePolicy ==
    pc = "validated" =>
        /\ verdict.ok <=> (/\ Len(candidate) >= 8
                           /\ NumUpper(candidate) >= 1
                           /\ NumLetters(candidate) >= 4
                           /\ NumDigits(candidate) >= 4
                           /\ NoTriple(candidate))
        /\ verdict.reason[1] = FirstViolatedRule(candidate)
        /\ candidate = <<"A", "A", "A", "A", "1", "1", "1", "1">>
              => (~verdict.ok /\ verdict.reason = <<MsgRepeat, "A">>)
        /\ candidate = <<"A", "a", "B", "b", "1", "1", "2", "2">> => verdict.ok

\* a typed candidate of eight characters passes every rule and is accepted
C3_Witness ==
    /\ pc = "validated"
    /\ verdict.ok
    /\ candidate = <<"A", "A", "a", "a", "1", "1", "2", "2">>

\* =========================================== SpecResolve: ensure_unique_path
ResolveKinds == {"none", "file", "dir", "dangling"}
DesiredZip == <<"a", "txt", "zip">>
DesiredBare == <<"b">>
Numbered(p, i) == splitext(p)[1] \o <<Str(i)>> \o splitext(p)[2]
ResolveUniverse ==
    {DesiredZip, DesiredBare, Numbered(DesiredBare, 1)}
        \cup {Numbered(DesiredZip, i) : i \in 1..MaxProbe}

InitResolve ==
    /\ Idle
    /\ \E a \in [ResolveUniverse -> ResolveKinds] :
          /\ a[DesiredBare] \in {"none", "file"}
          /\ a[Numbered(DesiredBare, 1)] \in {"none", "file"}
          /\ fs = MkFs(a)
    /\ fs0 = fs
    /\ pc = "call"
    /\ loc = NoLoc

Resolve ==
    /\ pc = "call"
    /\ \E d \in {DesiredZip, DesiredBare} :
          loc' = [op |-> "resolve", desired |-> d, result |-> ensure_unique_path(fs, d)]
    /\ pc' = "ret"
    /\ UNCHANGED <<candidate, verdict, fs, fs0, password, engine, log,
                   all_files, idx, errors, successes, rc>>

NextResolve == Resolve
SpecResolve == InitResolve /\ [][NextResolve]_vars

\* the paths os.path.exists reports at call time
ExistingAtCall == {p \in DOMAIN fs0 : os_path_exists(fs0, p)}

\* C4: the result does not exist at call time; it is the desired path when
\* that is free, otherwise base.i.ext for the smallest i >= 1 that is free;
\* the filesystem is left as it was (so the result is a function of the
\* existing-file set alone).
C4_ResolveFree ==
    pc = "ret" =>
        /\ loc.result \notin ExistingAtCall
        /\ loc.desired \notin ExistingAtCall => loc.result = loc.desired
        /\ loc.desired \in ExistingAtCall =>
              \E i \in 1..(Cardinality(ExistingAtCall) + 1) :
                  /\ loc.result = Numbered(loc.desired, i)
                  /\ \A j \in 1..(i - 1) : Numbered(loc.desired, j) \in ExistingAtCall
        /\ fs = fs0

\* the desired path and its first numbered variant exist: the result is .2
C4_Witness ==
    /\ pc = "ret"
    /\ loc.desired = DesiredZip
    /\ {DesiredZip, Numbered(DesiredZip, 1)} \subseteq ExistingAtCall
    /\ loc.result = <<"a", "txt", "2", "zip">>

\* ============================================ the 7-Zip adapter and the wrapper
NoExc == [type |-> "none", msg |-> <<>>]
RuntimeError(msg) == [type |-> "RuntimeError", msg |-> msg]
OSError(msg) == [type |-> "OSError", msg |-> msg]
\* repr(e): the exception's type and its message
repr(e) == <<e.type>> \o e.msg

\* file contents: a 7z archive of one member under a key, a zip of one member
SevenZ(key, member, data) == <<"7z", key, member>> \o data
ZipOf(arcname, data) == <<"zip", arcname>> \o data
Partial7z == <<"7z-truncated">>
PartialZip == <<"zip-truncated">>
IsSevenZ(c, key) == Len(c) >= 3 /\ c[1] = "7z" /\ c[2] = key

\* the bytes read through p
ReadFile(f, p) == f[Target(f, p)].c

\* what the 7-Zip process can do with a request: "ok" (exit 0, archive
\* written), "fail" (exit 2, nothing written), "fail_partial" (exit 1, a
\* warning: an archive is left behind although the call counts as failed)
EngineOutcomes == {"ok", "fail", "fail_partial"}
CanEngine(f, tmp, in_file, key, outcome) ==
    IF outcome = "ok"
    THEN /\ os_path_isfile(f, in_file)
         /\ (IF Has(f, tmp) THEN f[tmp].k = "file" /\ IsSevenZ(f[tmp].c, key) ELSE TRUE)
    ELSE IF outcome = "fail_partial" THEN ~Has(f, tmp)
    ELSE TRUE

\* the command line of "7z a": the secret is part of it
cmd_7z_add(tmp, in_file, pw) ==
    <<"7z", "a", "-t7z", "-p", pw, "-mhe=on", PathStr(tmp), PathStr(in_file)>>

\* proc.stderr of a failed call: 7-Zip names the archive and the input
stderr_7z(tmp, in_file) == <<"ERROR:", PathStr(tmp), PathStr(in_file)>>

\* subprocess.run of "7z a": the filesystem after it, and the exit code
run_7z_add(f, tmp, in_file, pw, outcome) ==
    IF outcome = "ok"
    THEN [fs |-> WriteFile(f, tmp,
                    IF Has(f, tmp)
                    THEN f[tmp].c \o <<basename(in_file)>> \o ReadFile(f, in_file)
                    ELSE SevenZ(pw, basename(in_file), ReadFile(f, in_file))),
          returncode |-> 0]
    ELSE IF outcome = "fail_partial"
    THEN [fs |-> WriteFile(f, tmp, Partial7z), returncode |-> 1]
    ELSE [fs |-> f, returncode |-> 2]

\* the failure message carrying the command line instead of stderr
encrypt_run_mut(f, in_file, out, pw, outcome) ==
    LET tmp == Append(out, "7z")
        proc == run_7z_add(f, tmp, in_file, pw, outcome)
    IN  IF proc.returncode # 0
        THEN [fs |-> proc.fs,
              exc |-> RuntimeError(<<"7z failed (code", Str(proc.returncode)>>
                                     \o cmd_7z_add(tmp, in_file, pw))]
        ELSE [fs |-> proc.fs, exc |-> NoExc]

\* encrypt_with_7z up to the exit-code test
encrypt_run(f, in_file, out, pw, outcome) ==
    LET tmp == Append(out, "7z")
        proc == run_7z_add(f, tmp, in_file, pw, outcome)
    IN  IF proc.returncode # 0
        THEN [fs |-> proc.fs,
              exc |-> RuntimeError(<<"7z failed (code", Str(proc.returncode)>>
                                     \o stderr_7z(tmp, in_file))]
        ELSE [fs |-> proc.fs, exc |-> NoExc]

\* encrypt_with_7z after the exit-code test: the guarded removal, the move
encrypt_move(f, out) ==
    LET tmp == Append(out, "7z")
        refused == /\ os_path_exists(f, out)
                   /\ (os_path_islink(f, out) \/ ~os_path_isfile(f, out))
        f1 == IF os_path_exists(f, out) /\ ~refused THEN os_remove(f, out) ELSE f
    IN  IF refused
        THEN [fs |-> f,
              exc |-> RuntimeError(<<"Refusing to overwrite non-regular file:",
                                     PathStr(out)>>)]
        ELSE IF ~Has(f1, tmp)
        THEN [fs |-> f1, exc |-> OSError(<<"No such file:", PathStr(tmp)>>)]
        ELSE [fs |-> os_replace(f1, tmp, out), exc |-> NoExc]

encrypt_with_7z(f, in_file, out, pw, outcome) ==
    LET r == encrypt_run(f, in_file, out, pw, outcome)
    IN  IF r.exc # NoExc THEN r ELSE encrypt_move(r.fs, out)

\* what writing the zip can meet: "ok", or "ioerror" (the write fails after
\* the file was opened and truncated: disk full, I/O error)
WrapOutcomes == {"ok", "ioerror"}

wrap_in_zip(f, no_ext_7z_path, final_zip_path, io) ==
    IF os_path_islink(f, no_ext_7z_path) \/ ~os_path_isfile(f, no_ext_7z_path)
    THEN [fs |-> f,
          exc |-> RuntimeError(<<"Refusing to zip non-regular file:",
                                 PathStr(no_ext_7z_path)>>)]
    ELSE IF os_path_isdir(f, final_zip_path)
    THEN [fs |-> f, exc |-> OSError(<<"Is a directory:", PathStr(final_zip_path)>>)]
    ELSE IF io = "ioerror"
    THEN [fs |-> WriteFile(f, Target(f, final_zip_path), PartialZip),
          exc |-> OSError(<<"No space left on device">>)]
    ELSE [fs |-> WriteFile(f, Target(f, final_zip_path),
                           ZipOf(basename(no_ext_7z_path), ReadFile(f, no_ext_7z_path))),
          exc |-> NoExc]

\* ================================== SpecOps: one call of Encrypt or of Wrap
Secrets == {"AaBb1122", "Zz99#yY8"}
SrcPath == <<"a", "txt">>
PayloadPath == <<"r1">>
OpsKinds == {"none", "file", "dir", "link", "dangling"}

InitOps ==
    /\ candidate = <<>> /\ verdict = NoVerdict /\ engine = "sound"
    /\ log = <<>> /\ all_files = <<>> /\ idx = 0
    /\ errors = 0 /\ successes = 0 /\ rc = -1
    /\ password \in Secrets
    /\ \E a \in [{PayloadPath, Append(PayloadPath, "7z"), DesiredZip} -> OpsKinds] :
          /\ a[Append(PayloadPath, "7z")] \in {"none", "file"}
          /\ fs = (SrcPath :> File(<<"hello">>)) @@ MkFs(a)
    /\ fs0 = fs
    /\ pc = "call"
    /\ loc = NoLoc

EncryptCall ==
    /\ pc = "call"
    /\ \E outcome \in EngineOutcomes :
          /\ CanEngine(fs, Append(PayloadPath, "7z"), SrcPath, password, outcome)
          /\ LET r == encrypt_with_7z(fs, SrcPath, PayloadPath, password, outcome)
             IN  /\ fs' = r.fs
                 /\ loc' = [op |-> "encrypt", exc |-> r.exc, returncode |->
                              run_7z_add(fs, Append(PayloadPath, "7z"), SrcPath,
                                         password, outcome).returncode]
    /\ pc' = "ret"
    /\ UNCHANGED <<candidate, verdict, fs0, password, engine, log,
                   all_files, idx, errors, successes, rc>>

WrapCall ==
    /\ pc = "call"
    /\ \E io \in WrapOutcomes :
          LET r == wrap_in_zip(fs, PayloadPath, DesiredZip, io)
          IN  /\ fs' = r.fs
              /\ loc' = [op |-> "wrap", exc |-> r.exc, returncode |-> 0]
    /\ pc' = "ret"
    /\ UNCHANGED <<candidate, verdict, fs0, password, engine, log,
                   all_files, idx, errors, successes, rc>>

NextOps == EncryptCall \/ WrapCall
SpecOps == InitOps /\ [][NextOps]_vars

\* C1: when a file exists at destZipPath, Wrap fails and the file is left
\* as it was (never replaced, never truncated).
C1_WrapNeverOverwrites ==
    (pc = "ret" /\ loc.op = "wrap" /\ os_path_exists(fs0, DesiredZip)) =>
        /\ loc.exc # NoExc
        /\ fs = fs0

\* C7: with a symlink (dangling or not) or a directory at destPathNoExt,
\* Encrypt fails and leaves the entry in place; an entry at that path is
\* removed or replaced only when it is a regular file.
C7_EncryptRefusesUnsafeTarget ==
    (pc = "ret" /\ loc.op = "encrypt" /\ Has(fs0, PayloadPath)) =>
        /\ fs0[PayloadPath].k \in {"link", "dir"} =>
              /\ loc.exc # NoExc
              /\ Has(fs, PayloadPath)
              /\ fs[PayloadPath] = fs0[PayloadPath]
        /\ (~Has(fs, PayloadPath) \/ fs[PayloadPath] # fs0[PayloadPath]) =>
              fs0[PayloadPath].k = "file"

\* ===================================================== Spec: main(), a batch run
LogPath == <<"log", "txt">>
ScriptPath == <<"code", "py">>
OtherSrcPath == <<"b", "txt">>
RndNames == {"r1", "r2"}
excluded_exts == {"zip", "7z", "rar", "gz", "xz", "bz2", "tar", "tgz", "zst"}
ZipKinds == {"none", "file", "dir", "link", "dangling"}

\* log_message: one timestamped line appended
log_message(lg, message) == Append(lg, <<"[timestamp]">> \o message)

\* get_all_files and the extension filter of main, as a set: the entries of
\* the directory that are not directories, not the script, not archives
Candidates(f) ==
    {p \in DOMAIN f : /\ p[1] \notin DirNames
                      /\ f[p].k # "dir"
                      /\ p # ScriptPath
                      /\ \A x \in Range(splitext(p)[2]) : x \notin excluded_exts}

\* the orders in which os.walk can list a set of paths
Orders(S) ==
    {q \in [1..Cardinality(S) -> S] : \A i, j \in 1..Cardinality(S) : q[i] = q[j] => i = j}

\* a.txt.1.zip .. a.txt.n.zip exist as regular files
NumberedZips(n) == [p \in {Numbered(DesiredZip, i) : i \in 1..n} |-> File(<<"old">>)]

Init ==
    /\ candidate = <<>> /\ verdict = NoVerdict /\ engine = "sound"
    /\ log = <<>> /\ all_files = <<>> /\ idx = 0
    /\ errors = 0 /\ successes = 0 /\ rc = -1
    /\ password \in Secrets
    /\ \E zk \in ZipKinds, n \in 0..MaxProbe, rk \in {"none", "dir"} :
          fs = (SrcPath :> File(<<"hello">>)) @@ (OtherSrcPath :> File(<<"world">>))
                 @@ (ScriptPath :> File(<<"script">>))
                 @@ (IF zk = "none" THEN NumberedZips(0) ELSE NumberedZips(n))
                 @@ MkFs((DesiredZip :> zk) @@ (<<"r1">> :> rk))
    /\ fs0 = fs
    /\ pc = "start"
    /\ loc = NoLoc

\* lines 467-480: the run-start line (which creates log.txt), the discovery
Start ==
    /\ pc = "start"
    /\ log' = log_message(log, <<"Run started (password not logged).">>)
    /\ fs' = IF Has(fs, LogPath) THEN fs ELSE WriteFile(fs, LogPath, <<"log">>)
    /\ all_files' \in Orders(Candidates(fs'))
    /\ idx' = 1
    /\ pc' = "loop"
    /\ UNCHANGED <<candidate, verdict, fs0, loc, password, engine, errors, successes, rc>>

\* lines 487-488: the log file itself is passed over
SkipLog ==
    /\ pc = "loop" /\ idx <= Len(all_files)
    /\ all_files[idx] = LogPath
    /\ idx' = idx + 1
    /\ UNCHANGED <<candidate, verdict, fs, fs0, pc, loc, password, engine, log,
                   all_files, errors, successes, rc>>

\* lines 491-497: the random payload name, the resolved destination
Prepare ==
    /\ pc = "loop" /\ idx <= Len(all_files)
    /\ all_files[idx] # LogPath
    /\ \E rnd_name \in RndNames :
          loc' = [op |-> "main",
                  file_path |-> all_files[idx],
                  out_no_ext_path |-> <<rnd_name>>,
                  final_zip_path |-> ensure_unique_path(fs, Append(all_files[idx], "zip"))]
    /\ pc' = "encrypt"
    /\ UNCHANGED <<candidate, verdict, fs, fs0, password, engine, log,
                   all_files, idx, errors, successes, rc>>

\* the handler that also ends the run at the first failing file
HandleError_mut(f, e) ==
    /\ fs' = f
    /\ errors' = errors + 1
    /\ log' = log_message(log, <<"Error:", PathStr(loc.file_path), "|">> \o repr(e))
    /\ rc' = 1
    /\ pc' = "exit"
    /\ UNCHANGED <<candidate, verdict, fs0, loc, password, engine, all_files,
                   idx, successes>>

\* lines 510-512: except Exception, then the next iteration
HandleError(f, e) ==
    /\ fs' = f
    /\ errors' = errors + 1
    /\ log' = log_message(log, <<"Error:", PathStr(loc.file_path), "|">> \o repr(e))
    /\ idx' = idx + 1
    /\ pc' = "loop"
    /\ UNCHANGED <<candidate, verdict, fs0, loc, password, engine, all_files,
                   successes, rc>>

\* line 499, first half: the 7-Zip call and its exit code
EncryptRun ==
    /\ pc = "encrypt"
    /\ \E outcome \in EngineOutcomes :
          /\ CanEngine(fs, Append(loc.out_no_ext_path, "7z"), loc.file_path,
                       password, outcome)
          /\ LET r == encrypt_run(fs, loc.file_path, loc.out_no_ext_path,
                                  password, outcome)
             IN  IF r.exc # NoExc THEN HandleError(r.fs, r.exc)
                 ELSE /\ fs' = r.fs
                      /\ pc' = "move"
                      /\ UNCHANGED <<candidate, verdict, fs0, loc, password, engine,
                                     log, all_files, idx, errors, successes, rc>>

\* line 499, second half: the guarded removal and the move
EncryptMove ==
    /\ pc = "move"
    /\ LET r == encrypt_move(fs, loc.out_no_ext_path)
       IN  IF r.exc # NoExc THEN HandleError(r.fs, r.exc)
           ELSE /\ fs' = r.fs
                /\ pc' = "wrap"
                /\ UNCHANGED <<candidate, verdict, fs0, loc, password, engine,
                               log, all_files, idx, errors, successes, rc>>

\* line 500
Wrap ==
    /\ pc = "wrap"
    /\ \E io \in WrapOutcomes :
          LET r == wrap_in_zip(fs, loc.out_no_ext_path, loc.final_zip_path, io)
          IN  IF r.exc # NoExc THEN HandleError(r.fs, r.exc)
              ELSE /\ fs' = r.fs
                   /\ pc' = "cleanup"
                   /\ UNCHANGED <<candidate, verdict, fs0, loc, password, engine,
                                  log, all_files, idx, errors, successes, rc>>

\* the cleanup that removes the processed file instead of the payload
Cleanup_mut ==
    /\ pc = "cleanup"
    /\ fs' = os_remove(fs, loc.file_path)
    /\ successes' = successes + 1
    /\ log' = log_message(log, <<"Success:", PathStr(loc.file_path), "->",
                                 PathStr(loc.final_zip_path)>>)
    /\ idx' = idx + 1
    /\ pc' = "loop"
    /\ UNCHANGED <<candidate, verdict, fs0, loc, password, engine,
                   all_files, errors, rc>>

\* lines 502-508: the payload is removed, the success counted and logged
Cleanup ==
    /\ pc = "cleanup"
    /\ IF /\ os_path_exists(fs, loc.out_no_ext_path)
          /\ (os_path_islink(fs, loc.out_no_ext_path)
                \/ ~os_path_isfile(fs, loc.out_no_ext_path))
       THEN HandleError(fs, RuntimeError(<<"Refusing to delete non-regular file:",
                                           PathStr(loc.out_no_ext_path)>>))
       ELSE /\ fs' = IF os_path_exists(fs, loc.out_no_ext_path)
                     THEN os_remove(fs, loc.out_no_ext_path) ELSE fs
            /\ successes' = successes + 1
            /\ log' = log_message(log, <<"Success:", PathStr(loc.file_path), "->",
                                         PathStr(loc.final_zip_path)>>)
            /\ idx' = idx + 1
            /\ pc' = "loop"
            /\ UNCHANGED <<candidate, verdict, fs0, loc, password, engine,
                           all_files, errors, rc>>

\* what an interrupt in the middle of a step can leave: a 7-Zip process killed
\* while writing, a zip being written
InterruptedFs(f, eff) ==
    IF eff = "partial" /\ pc = "encrypt" /\ ~Has(f, Append(loc.out_no_ext_path, "7z"))
    THEN WriteFile(f, Append(loc.out_no_ext_path, "7z"), Partial7z)
    ELSE IF eff = "partial" /\ pc = "wrap"
    THEN WriteFile(f, Target(f, loc.final_zip_path), PartialZip)
    ELSE f

\* the interrupt handler placed inside the loop: the line is logged and the
\* loop goes on with the next candidate
Interrupt_mut ==
    /\ rc = -1
    /\ pc \in {"encrypt", "move", "wrap", "cleanup"}
    /\ log' = log_message(log, <<"Run interrupted by user (KeyboardInterrupt).">>)
    /\ idx' = idx + 1
    /\ pc' = "loop"
    /\ UNCHANGED <<candidate, verdict, fs, fs0, loc, password, engine, all_files,
                   errors, successes, rc>>

\* lines 514-517: KeyboardInterrupt anywhere in the loop
Interrupt ==
    /\ rc = -1
    /\ pc \in {"loop", "encrypt", "move", "wrap", "cleanup"}
    /\ \E eff \in {"clean", "partial"} : fs' = InterruptedFs(fs, eff)
    /\ log' = log_message(log, <<"Run interrupted by user (KeyboardInterrupt).">>)
    /\ rc' = 130
    /\ pc' = "exit"
    /\ UNCHANGED <<candidate, verdict, fs0, loc, password, engine, all_files,
                   idx, errors, successes>>

\* lines 519-521: the loop is exhausted
Complete ==
    /\ pc = "loop" /\ idx > Len(all_files)
    /\ log' = log_message(log, <<"Completed. Total candidates:", Str(Len(all_files)),
                                 "| Successes:", Str(successes),
                                 "| Errors:", Str(errors)>>)
    /\ rc' = 0
    /\ pc' = "exit"
    /\ UNCHANGED <<candidate, verdict, fs, fs0, loc, password, engine, all_files,
                   idx, errors, successes>>

Next ==
    \/ Start \/ SkipLog \/ Prepare \/ EncryptRun \/ EncryptMove \/ Wrap
    \/ Cleanup \/ Interrupt \/ Complete
Spec == Init /\ [][Next]_vars

\* ------------------------------------------------ reading the audit log
LineKind(line) == line[2]
IsOutcomeLine(line) == LineKind(line) \in {"Success:", "Error:"}
NumLines(kind) == Cardinality({i \in 1..Len(log) : LineKind(log[i]) = kind})
InterruptedLine == <<"[timestamp]", "Run interrupted by user (KeyboardInterrupt).">>
IsCompletedLine(line) == LineKind(line) = "Completed. Total candidates:"
\* the file names of the Success and Error lines, in the order logged
OutcomeFiles == [i \in 1..Len(SelectSeq(log, IsOutcomeLine)) |->
                    SelectSeq(log, IsOutcomeLine)[i][3]]
\* the candidates before position n that are not the log file, in order
NotLog(p) == p # LogPath
ProcessedBefore(n) ==
    [i \in 1..Len(SelectSeq(SubSeq(all_files, 1, n - 1), NotLog)) |->
        PathStr(SelectSeq(SubSeq(all_files, 1, n - 1), NotLog)[i])]
IsPayloadContent(c) == c[1] \in {"7z", "7z-truncated"}
PayloadsOnDisk == {p \in DOMAIN fs : fs[p].k = "file" /\ IsPayloadContent(fs[p].c)}
IsZipPath(p) == splitext(p)[2] = <<"zip">>

\* C5: once a file is recorded Success or Failed, no intermediate encrypted
\* payload created for it is left on disk.
C5_NoPayloadSurvives ==
    (pc \in {"loop", "exit"} /\ rc # 130) => PayloadsOnDisk = {}

\* C6: a candidate whose archive already exists in the directory is skipped:
\* neither Encrypt nor Wrap is called for it and no outcome line names it.
C6_SkipsArchived ==
    os_path_exists(fs0, DesiredZip) =>
        /\ loc.op = "main" => loc.file_path # SrcPath
        /\ \A i \in 1..Len(log) :
              IsOutcomeLine(log[i]) => log[i][3] # PathStr(SrcPath)

\* C6 as amended: a candidate whose archive exists is not skipped; it is
\* given a free numbered destination, every archive that existed when the run
\* started is left as it was, the container is written at the new path, and
\* the only candidate passed over is the log file.
C6_ExistingArchiveKept ==
    /\ \A p \in DOMAIN fs0 :
          (IsZipPath(p) \/ p = Victim) => (Has(fs, p) /\ fs[p] = fs0[p])
    /\ loc.op = "main" =>
          /\ ~os_path_exists(fs0, loc.final_zip_path)
          /\ os_path_exists(fs0, Append(loc.file_path, "zip")) =>
                \E i \in 1..(MaxProbe + 1) :
                    loc.final_zip_path = Numbered(Append(loc.file_path, "zip"), i)
    /\ pc = "cleanup" =>
          /\ Has(fs, Target(fs, loc.final_zip_path))
          /\ fs[Target(fs, loc.final_zip_path)].c[1] = "zip"
    /\ pc = "loop" => OutcomeFiles = ProcessedBefore(idx)

\* a.txt.zip exists; a.txt was encrypted and wrapped into a.txt.1.zip
C6_Witness ==
    /\ pc = "cleanup"
    /\ loc.file_path = SrcPath
    /\ Has(fs0, DesiredZip) /\ fs0[DesiredZip].k = "file"
    /\ loc.final_zip_path = <<"a", "txt", "1", "zip">>
    /\ fs[DesiredZip] = fs0[DesiredZip]

\* C8: no line of the audit log contains the Secret.
C8_NoSecretInLog ==
    \A i \in 1..Len(log) : password \notin Range(log[i])

\* an error line carrying the engine's diagnostic text was logged
C8_Witness ==
    \E i \in 1..Len(log) :
        /\ LineKind(log[i]) = "Error:"
        /\ "7z failed (code" \in Range(log[i])
        /\ "ERROR:" \in Range(log[i])

\* C9: a failing file is one error and no success, the candidates after it
\* are still processed, and the run ends with exit code 0; at completion
\* successes + errors is the number of candidates the loop processed.
C9_PerFileRecovery ==
    /\ errors = NumLines("Error:")
    /\ successes = NumLines("Success:")
    /\ rc \in {-1, 0, 130}
    /\ pc = "loop" => OutcomeFiles = ProcessedBefore(idx)
    /\ rc = 0 =>
          /\ pc = "exit"
          /\ idx = Len(all_files) + 1
          /\ OutcomeFiles = ProcessedBefore(Len(all_files) + 1)
          /\ successes + errors = Len(OutcomeFiles)
          /\ IsCompletedLine(log[Len(log)])

\* the run completed with exit code 0 after one file failed and a later one
\* succeeded
C9_Witness ==
    /\ rc = 0
    /\ errors = 1 /\ successes = 1
    /\ \E i, j \in 1..Len(log) :
          i < j /\ LineKind(log[i]) = "Error:" /\ LineKind(log[j]) = "Success:"

\* C10: an interrupt in the loop ends the run at once: the interruption line
\* is the last line, no completion line is logged, the exit code is 130, the
\* interrupted file is counted neither as an error nor as a success, and
\* nothing is processed afterwards.
C10_InterruptStops ==
    /\ []((\E i \in 1..Len(log) : log[i] = InterruptedLine) =>
             /\ rc = 130 /\ pc = "exit"
             /\ log[Len(log)] = InterruptedLine
             /\ \A i \in 1..Len(log) : ~IsCompletedLine(log[i])
             /\ errors = NumLines("Error:"))
    /\ [][(rc = -1 /\ rc' = 130) =>
             /\ errors' = errors /\ successes' = successes /\ idx' = idx
             /\ log' = Append(log, InterruptedLine)]_vars
    /\ [][rc # 130]_vars

\* the run was interrupted between Encrypt and Wrap of its second file: the
\* payload of that file is on disk, and the file is in no outcome line
C10_Witness ==
    /\ rc = 130
    /\ Len(OutcomeFiles) = 1
    /\ loc.op = "main"
    /\ PathStr(loc.file_path) \notin Range(OutcomeFiles)
    /\ Has(fs, loc.out_no_ext_path) /\ fs[loc.out_no_ext_path].k = "file"
    /\ ~Has(fs, Append(loc.out_no_ext_path, "7z"))

\* the candidates of the run that are source files: all but the audit log,
\* which the run itself appends to
SourceFiles == {p \in Range(all_files) : p # LogPath}

GeneratedSecrets == {"g1", "g2", "g3"}
sample_path == <<"src/", "sample", "txt">>
sample_content == <<"self-test: content", "line2">>
payload_no_ext == <<"mid/", "payload_no_ext">>
zip_path == <<"mid/", "wrapped", "zip">>
WrongSucceeded == RuntimeError(<<"Self-test failed: wrong password unexpectedly succeeded">>)

\* extract_single_member_zip: the member is written under out_dir
extract_single_member_zip(f, zpath, out_dir) ==
    LET c == ReadFile(f, zpath)
    IN  IF ~os_path_isfile(f, zpath) \/ c[1] # "zip"
        THEN [fs |-> f, exc |-> OSError(<<"BadZipFile:", PathStr(zpath)>>), path |-> <<>>]
        ELSE [fs |-> WriteFile(f, os_path_join(out_dir, c[2]), SubSeq(c, 3, Len(c))),
              exc |-> NoExc,
              path |-> os_path_join(out_dir, c[2])]

\* decrypt_7z_payload: "7z x" extracts the member when the key opens the
\* archive; a regressed engine opens it under any key
decrypt_7z_payload(f, payload_path, out_dir, pw, eng) ==
    LET c == ReadFile(f, payload_path)
    IN  IF /\ os_path_isfile(f, payload_path)
           /\ Len(c) >= 3 /\ c[1] = "7z"
           /\ (c[2] = pw \/ eng = "regressed")
        THEN [fs |-> WriteFile(f, os_path_join(out_dir, c[3]), SubSeq(c, 4, Len(c))),
              exc |-> NoExc]
        ELSE [fs |-> f,
              exc |-> RuntimeError(<<"7z decrypt failed (code", "2", "ERROR:",
                                     "Wrong password?", PathStr(payload_path)>>)]

InitSelfTest ==
    /\ candidate = <<>> /\ verdict = NoVerdict /\ password = "none"
    /\ log = <<>> /\ all_files = <<>> /\ idx = 0
    /\ errors = 0 /\ successes = 0 /\ rc = -1
    /\ engine \in {"sound", "regressed"}
    /\ fs = Outside /\ fs0 = Outside
    /\ pc = "st_start"
    /\ loc = NoLoc

\* main, lines 463-465: the exception reaches main, which returns 2; the
\* temporary directory is removed on the way out
StFail(e) ==
    /\ loc' = [loc EXCEPT !.failure = e]
    /\ fs' = fs0
    /\ rc' = 2
    /\ pc' = "exit"
    /\ UNCHANGED <<candidate, verdict, fs0, password, engine, log,
                   all_files, idx, errors, successes>>

StStep(f, next) ==
    /\ fs' = f
    /\ pc' = next
    /\ UNCHANGED <<candidate, verdict, fs0, loc, password, engine, log,
                   all_files, idx, errors, successes, rc>>

\* lines 380-394: the two secrets, the directories, the sample file
StGenerate ==
    /\ pc = "st_start"
    /\ \E tp \in GeneratedSecrets, wp \in GeneratedSecrets :
          loc' = [op |-> "self_test", test_password |-> tp, wrong_password |-> wp,
                  extracted_payload |-> <<>>, swallowed |-> NoExc, failure |-> NoExc]
    /\ fs' = WriteFile(fs, sample_path, sample_content)
    /\ pc' = "st_encrypt"
    /\ UNCHANGED <<candidate, verdict, fs0, password, engine, log,
                   all_files, idx, errors, successes, rc>>

\* lines 396-397
StEncrypt ==
    /\ pc = "st_encrypt"
    /\ \E outcome \in EngineOutcomes :
          /\ CanEngine(fs, Append(payload_no_ext, "7z"), sample_path,
                       loc.test_password, outcome)
          /\ LET r == encrypt_with_7z(fs, sample_path, payload_no_ext,
                                      loc.test_password, outcome)
             IN  IF r.exc # NoExc THEN StFail(r.exc) ELSE StStep(r.fs, "st_wrap")

\* lines 399-400
StWrap ==
    /\ pc = "st_wrap"
    /\ \E io \in WrapOutcomes :
          LET r == wrap_in_zip(fs, payload_no_ext, zip_path, io)
          IN  IF r.exc # NoExc THEN StFail(r.exc) ELSE StStep(r.fs, "st_unzip")

\* line 402
StUnzip ==
    /\ pc = "st_unzip"
    /\ LET r == extract_single_member_zip(fs, zip_path, "out/")
       IN  IF r.exc # NoExc THEN StFail(r.exc)
           ELSE /\ fs' = r.fs
                /\ loc' = [loc EXCEPT !.extracted_payload = r.path]
                /\ pc' = "st_decrypt"
                /\ UNCHANGED <<candidate, verdict, fs0, password, engine, log,
                               all_files, idx, errors, successes, rc>>

\* lines 404-414: decrypt with the right secret, compare the content
StDecrypt ==
    /\ pc = "st_decrypt"
    /\ LET r == decrypt_7z_payload(fs, loc.extracted_payload, "out/dec/",
                                   loc.test_password, engine)
           decrypted_sample == os_path_join("out/dec/", "sample.txt")
       IN  IF r.exc # NoExc THEN StFail(r.exc)
           ELSE IF ~os_path_isfile(r.fs, decrypted_sample)
           THEN StFail(RuntimeError(<<"Self-test failed: decrypted file not found (sample.txt)">>))
           ELSE IF ReadFile(r.fs, decrypted_sample) # sample_content
           THEN StFail(RuntimeError(<<"Self-test failed: decrypted content mismatch">>))
           ELSE StStep(r.fs, "st_wrong")

\* lines 416-424 and main 460-462: the wrong-secret attempt inside
\* try/except RuntimeError, then return 0 and "Self-test: OK"
StWrong ==
    /\ pc = "st_wrong"
    /\ LET r == decrypt_7z_payload(fs, loc.extracted_payload, "out/wrong/",
                                   loc.wrong_password, engine)
       IN  loc' = [loc EXCEPT !.swallowed =
                      IF r.exc = NoExc THEN WrongSucceeded ELSE r.exc]
    /\ fs' = fs0
    /\ rc' = 0
    /\ pc' = "exit"
    /\ UNCHANGED <<candidate, verdict, fs0, password, engine, log,
                   all_files, idx, errors, successes>>

NextSelfTest == StGenerate \/ StEncrypt \/ StWrap \/ StUnzip \/ StDecrypt \/ StWrong
SpecSelfTest == InitSelfTest /\ [][NextSelfTest]_vars

\* C2: when the Decrypt call with the wrong secret succeeds, the self-test
\* fails: self_test does not return 0 and the process exits with code 2.
C2_WrongSecretFailsSelfTest ==
    (/\ pc = "exit" /\ loc.op = "self_test"
     /\ loc.wrong_password # loc.test_password
     /\ loc.swallowed = WrongSucceeded) => rc = 2

\* ============================================ SpecAcquire: get_password_from_user
\* A secret is a sequence of characters here, as in SpecValidate.
MaxDrawPattern == 3
DefaultLength == 24

ascii_lowercase == <<"a", "b", "c", "d", "e", "f", "g", "h", "i", "j", "k", "l", "m",
                     "n", "o", "p", "q", "r", "s", "t", "u", "v", "w", "x", "y", "z">>
ascii_uppercase == <<"A", "B", "C", "D", "E", "F", "G", "H", "I", "J", "K", "L", "M",
                     "N", "O", "P", "Q", "R", "S", "T", "U", "V", "W", "X", "Y", "Z">>
\* string.punctuation; "grave" stands for the grave accent, which a string
\* of this language cannot hold
punctuation == <<"!", "\"", "#", "$", "%", "&", "'", "(", ")", "*", "+", ",", "-",
                 ".", "/", ":", ";", "<", "=", ">", "?", "@", "[", "\\", "]", "^",
                 "_", "grave", "{", "|", "}", "~">>

\* s.replace(ch, ""), on a sequence of characters
str_replace(s, ch) == SelectSeq(s, LAMBDA c : c # ch)

\* line 63-64: letters, digits and punctuation, with the four replace calls
gen_alphabet ==
    str_replace(str_replace(str_replace(str_replace(
        ascii_lowercase \o ascii_uppercase \o Digit \o punctuation,
        " "), "\t"), "\n"), "\r")

\* the generator that draws one character too few
generate_strong_password_mut(length, draws) ==
    [i \in 1..(length - 1) |-> gen_alphabet[draws[i]]]

\* line 65: one independent secrets.choice(alphabet) per position; draws[i] is
\* the position in the alphabet that the i-th choice returns
generate_strong_password(length, draws) ==
    [i \in 1..length |-> gen_alphabet[draws[i]]]

\* The outcomes of the random source that are explored: every periodic
\* sequence of draws over a lowercase letter, an uppercase letter, a digit and
\* a punctuation character, and one sequence with no character drawn more
\* than twice.
DrawIdx == {1, 27, 53, 63}
PairedDraws == <<27, 1, 28, 2, 53, 53, 54, 54, 55, 55, 56, 56, 57, 57, 58, 58,
                 59, 59, 60, 60, 61, 61, 62, 62>>
Tile(pattern, length) == [i \in 1..length |-> pattern[((i - 1) % Len(pattern)) + 1]]
DrawPool(length) ==
    {Tile(pattern, length) : pattern \in [1..MaxDrawPattern -> DrawIdx]}
        \cup {SubSeq(PairedDraws, 1, length)}

\* str.strip(): leading and trailing whitespace removed
Whitespace == {" ", "\t", "\n", "\r"}
RECURSIVE lstrip(_)
lstrip(s) == IF s # <<>> /\ Head(s) \in Whitespace THEN lstrip(Tail(s)) ELSE s
RECURSIVE rstrip(_)
rstrip(s) ==
    IF s # <<>> /\ s[Len(s)] \in Whitespace THEN rstrip(SubSeq(s, 1, Len(s) - 1)) ELSE s
strip(s) == rstrip(lstrip(s))

\* the keys that are typed one at a time, and the pasted beginnings
Keys == {"2", " "}
Beginnings == {<<"A", "a", "B", "b", "1", "1">>,
               <<" ", "A", "a", "B", "b", "1", "1">>,
               <<"A", "1", "1", "2", "2", "3", "3">>,
               <<"\t", " ">>}

InitAcquire ==
    /\ Idle
    /\ fs = Outside /\ fs0 = Outside
    /\ pc = "ask"
    /\ loc = NoLoc

\* lines 158-160 (119-121 on Windows): an ordinary key is appended to the buffer
KeyChar ==
    /\ pc = "ask"
    /\ Len(candidate) < MinLen + 1 + MaxExtraLen
    /\ \E ch \in Keys : candidate' = Append(candidate, ch)
    /\ UNCHANGED <<verdict, fs, fs0, pc, loc, password, engine, log,
                   all_files, idx, errors, successes, rc>>

\* the input starts with one of the pasted beginnings
KeyPaste ==
    /\ pc = "ask"
    /\ candidate = <<>>
    /\ \E b \in Beginnings : candidate' = b
    /\ UNCHANGED <<verdict, fs, fs0, pc, loc, password, engine, log,
                   all_files, idx, errors, successes, rc>>

\* lines 152-157: backspace drops the last character, if there is one
KeyBackspace ==
    /\ pc = "ask"
    /\ candidate' = IF candidate # <<>>
                    THEN SubSeq(candidate, 1, Len(candidate) - 1)
                    ELSE candidate
    /\ UNCHANGED <<verdict, fs, fs0, pc, loc, password, engine, log,
                   all_files, idx, errors, successes, rc>>

\* lines 145-148, 163 and 182: ENTER ends the read; the buffer is stripped by
\* get_password_masked and again by get_password_from_user
KeyEnter ==
    /\ pc = "ask"
    /\ loc' = [op |-> "get_password_from_user", pw |-> strip(strip(candidate)),
               how |-> "read"]
    /\ pc' = "entered"
    /\ UNCHANGED <<candidate, verdict, fs, fs0, password, engine, log,
                   all_files, idx, errors, successes, rc>>

\* lines 165-173: no way of reading works, and the read returns ""
ReadFails ==
    /\ pc = "ask"
    /\ candidate = <<>>
    /\ loc' = [op |-> "get_password_from_user", pw |-> strip(<<>>), how |-> "fallback"]
    /\ pc' = "entered"
    /\ UNCHANGED <<candidate, verdict, fs, fs0, password, engine, log,
                   all_files, idx, errors, successes, rc>>

\* lines 149-150: Ctrl-C raises KeyboardInterrupt, which nothing here catches
KeyInterrupt ==
    /\ pc = "ask"
    /\ pc' = "aborted"
    /\ UNCHANGED <<candidate, verdict, fs, fs0, loc, password, engine, log,
                   all_files, idx, errors, successes, rc>>

\* lines 184-189: nothing was entered; a secret is generated, printed and
\* returned, and validate_password_policy is not called
ReturnGenerated ==
    /\ pc = "entered"
    /\ loc.pw = <<>>
    /\ \E draws \in DrawPool(DefaultLength) :
          /\ password' = generate_strong_password(DefaultLength, draws)
          /\ loc' = [op |-> "get_password_from_user", pw |-> password',
                     how |-> "generated"]
    /\ pc' = "returned"
    /\ UNCHANGED <<candidate, verdict, fs, fs0, engine, log,
                   all_files, idx, errors, successes, rc>>

\* the return of whatever was typed, with the verdict ignored
ReturnTyped_mut ==
    /\ pc = "entered"
    /\ loc.pw # <<>>
    /\ verdict' = validate_password_policy(loc.pw)
    /\ password' = loc.pw
    /\ loc' = [loc EXCEPT !.how = "typed"]
    /\ pc' = "returned"
    /\ UNCHANGED <<candidate, fs, fs0, engine, log,
                   all_files, idx, errors, successes, rc>>

\* lines 191-193: the typed secret passes the policy and is returned
ReturnTyped ==
    /\ pc = "entered"
    /\ loc.pw # <<>>
    /\ verdict' = validate_password_policy(loc.pw)
    /\ verdict'.ok
    /\ password' = loc.pw
    /\ loc' = [loc EXCEPT !.how = "typed"]
    /\ pc' = "returned"
    /\ UNCHANGED <<candidate, fs, fs0, engine, log,
                   all_files, idx, errors, successes, rc>>

\* lines 191-195 and 181: the typed secret fails the policy; the reason is
\* printed and the loop prompts again with an empty buffer
Reject ==
    /\ pc = "entered"
    /\ loc.pw # <<>>
    /\ verdict' = validate_password_policy(loc.pw)
    /\ ~verdict'.ok
    /\ candidate' = <<>>
    /\ loc' = NoLoc
    /\ pc' = "ask"
    /\ UNCHANGED <<fs, fs0, password, engine, log,
                   all_files, idx, errors, successes, rc>>

NextAcquire ==
    \/ KeyChar \/ KeyPaste \/ KeyBackspace \/ KeyEnter \/ ReadFails \/ KeyInterrupt
    \/ ReturnGenerated \/ ReturnTyped \/ Reject

SpecAcquire == InitAcquire /\ [][NextAcquire]_vars

PolicyHolds(pw) == FirstViolatedRule(pw) = "OK"

\* C12: get_password_from_user never returns a typed, non-empty candidate that
\* fails the policy. What is returned for a non-empty input is the input
\* without its surrounding whitespace, and it passes the policy; a non-empty
\* input that fails is followed by a new prompt and nothing is returned; an
\* input that is empty after stripping returns a generated secret, and the
\* policy is not evaluated for it.
C12_AcquireDecides ==
    /\ [](pc = "returned" =>
            IF strip(candidate) = <<>>
            THEN loc.how = "generated"
            ELSE /\ loc.how = "typed"
                 /\ password = strip(candidate)
                 /\ PolicyHolds(password))
    /\ [][pc = "entered" =>
            IF loc.pw = <<>>
            THEN /\ pc' = "returned"
                 /\ loc'.how = "generated"
                 /\ verdict' = verdict
            ELSE IF PolicyHolds(loc.pw)
            THEN /\ pc' = "returned"
                 /\ password' = loc.pw
            ELSE /\ pc' = "ask"
                 /\ candidate' = <<>>
                 /\ password' = password
                 /\ ~verdict'.ok]_vars

\* a typed secret was returned: the input without the whitespace around it
C12_Witness ==
    /\ pc = "returned"
    /\ loc.how = "typed"
    /\ candidate = <<" ", "A", "a", "B", "b", "1", "1", "2", "2">>
    /\ password = <<"A", "a", "B", "b", "1", "1", "2", "2">>

\* ------------------------------------------------ generate_strong_password
GenChars == UpperChars \cup LowerChars \cup DigitChars \cup Range(punctuation)
Generated == pc = "returned" /\ loc.how = "generated"

\* C13 as stated: every secret generate_strong_password can produce satisfies
\* the policy, so the secret returned for an empty input meets it.
C13_GeneratedMeetsPolicy == Generated => PolicyHolds(password)

\* C13 as the code has it: a generated secret has exactly the requested number
\* of characters (24 when returned for an empty input), each of them a letter,
\* a digit or a punctuation character and none of them whitespace; it meets
\* the length rule of the policy, and it is returned without an accepting
\* verdict.
C13_GeneratedShape ==
    Generated =>
        /\ Len(password) = DefaultLength
        /\ Len(password) >= MinLen
        /\ \A i \in 1..Len(password) :
              password[i] \in GenChars /\ password[i] \notin Whitespace
        /\ ~verdict.ok

\* a secret of 24 punctuation characters was returned for an empty input
C13_Witness ==
    /\ Generated
    /\ strip(candidate) = <<>>
    /\ \A i \in 1..Len(password) : password[i] = "!"
    /\ Len(password) = DefaultLength
    /\ ~PolicyHolds(password)

====
